---- MODULE Spec2Model ----
(***************************************************************************)
(* Model of the procedural code of 20_llm_large_language_model.ipynb:      *)
(*   load_openwebtext_financial  (lines 132-151)                           *)
(*   preprocess_text             (lines 162-186)                           *)
(*   generate_text               (lines 197-209)                           *)
(* Text is a sequence of one-character strings.  The prediction model is a *)
(* black box: each call returns some probability distribution.             *)
(***************************************************************************)
EXTENDS Integers, Sequences, FiniteSets, TLC

VARIABLES
    \* ---- generate_text ----
    vocab,          \* parameter: the dict, as <<word, id>> pairs in insertion order
    seed_text,      \* parameter
    seq_length,     \* parameter
    length,         \* parameter
    temperature,    \* parameter, the rational num/den
    inv_vocab,      \* local (line 198): function id -> word
    tokens,         \* local (lines 199-200, 208): the generation state
    input_seq,      \* local (line 202): the window of the last model query
    pred,           \* local (line 203): the distribution returned by the model
    next_token,     \* local (line 207): <<>> before the first step, else <<id>>
    step,           \* number of completed iterations of the loop of line 201
    predict_calls,  \* number of calls of model.predict made so far
    seed_state,     \* history: tokens as line 200 left it
    chosen,         \* history: the identifiers appended so far, in order
    result,         \* return value of generate_text (line 209)
    pc,             \* position in generate_text
    \* ---- preprocess_text ----
    texts,          \* parameter: list of documents
    vocab_size,     \* parameter
    pre_seq_length, \* parameter seq_length
    max_sequences,  \* parameter
    all_tokens,     \* local (lines 172-175)
    pre_vocab,      \* local (lines 177-180), <<word, id>> pairs in insertion order
    token_ids,      \* local (line 182)
    sequences,      \* local (lines 183-185)
    pre_pc,         \* position in preprocess_text
    \* ---- load_openwebtext_financial ----
    dataset,        \* the streamed corpus (line 137), a finite list of documents
    batch_size,     \* parameter
    cursor,         \* number of examples the for loop of line 144 has consumed
    financial_texts,\* local (lines 143, 146, 149)
    yielded,        \* the batches yielded so far, in order
    load_pc         \* position in the generator

genVars  == <<vocab, seed_text, seq_length, length, temperature, inv_vocab, tokens,
              input_seq, pred, next_token, step, predict_calls, seed_state, chosen,
              result, pc>>
preVars  == <<texts, vocab_size, pre_seq_length, max_sequences, all_tokens, pre_vocab,
              token_ids, sequences, pre_pc>>
loadVars == <<dataset, batch_size, cursor, financial_texts, yielded, load_pc>>
vars     == <<genVars, preVars, loadVars>>

----------------------------------------------------------------------------
(* Bounds of the model *)
MaxSeedWords == 3       \* seeds have up to this many words
MaxSeqLength == 4       \* generate_text: seq_length in 1..MaxSeqLength
MaxLength    == 2       \* generate_text: length in 0..MaxLength
MaxDocs         == 3    \* preprocess_text: texts has up to this many documents
MaxVocabSize    == 3    \* preprocess_text: vocab_size in 1..MaxVocabSize
MaxPreSeqLength == 2    \* preprocess_text: seq_length in 1..MaxPreSeqLength
MaxSequences    == 2    \* preprocess_text: max_sequences in 0..MaxSequences
MaxDataset      == 4    \* loader: the corpus has up to this many documents
MaxBatchSize    == 3    \* loader: batch_size in 1..MaxBatchSize

----------------------------------------------------------------------------
(* Text: str.lower, word_tokenize, ' '.join, str.split *)

Min(a, b) == IF a < b THEN a ELSE b
Max(a, b) == IF a > b THEN a ELSE b

UpperToLower ==
    ("A" :> "a") @@ ("B" :> "b") @@ ("C" :> "c") @@ ("D" :> "d") @@ ("E" :> "e") @@
    ("F" :> "f") @@ ("G" :> "g") @@ ("H" :> "h") @@ ("I" :> "i") @@ ("J" :> "j") @@
    ("K" :> "k") @@ ("L" :> "l") @@ ("M" :> "m") @@ ("N" :> "n") @@ ("O" :> "o") @@
    ("P" :> "p") @@ ("Q" :> "q") @@ ("R" :> "r") @@ ("S" :> "s") @@ ("T" :> "t") @@
    ("U" :> "u") @@ ("V" :> "v") @@ ("W" :> "w") @@ ("X" :> "x") @@ ("Y" :> "y") @@
    ("Z" :> "z")

\* str.lower()
Lower(text) ==
    [i \in 1..Len(text) |->
        IF text[i] \in DOMAIN UpperToLower THEN UpperToLower[text[i]] ELSE text[i]]

RECURSIVE SplitFrom(_, _, _)
SplitFrom(text, cur, acc) ==
    IF text = <<>>
    THEN IF cur = <<>> THEN acc ELSE Append(acc, cur)
    ELSE IF Head(text) = " "
         THEN SplitFrom(Tail(text), <<>>, IF cur = <<>> THEN acc ELSE Append(acc, cur))
         ELSE SplitFrom(Tail(text), Append(cur, Head(text)), acc)

\* str.split(): the maximal runs of non-blank characters
Split(text) == SplitFrom(text, <<>>, <<>>)

\* nltk word_tokenize on text made of letters and blanks: the words between blanks
word_tokenize(text) == Split(text)

RECURSIVE Join(_)
\* ' '.join(words)
Join(words) ==
    IF words = <<>> THEN <<>>
    ELSE IF Len(words) = 1 THEN words[1]
    ELSE words[1] \o <<" ">> \o Join(Tail(words))

\* Python's s[:k]
SliceTo(s, k) ==
    IF k >= 0 THEN SubSeq(s, 1, Min(k, Len(s)))
    ELSE SubSeq(s, 1, Max(Len(s) + k, 0))

\* Python's s[start:]
SliceFrom(s, start) ==
    IF start >= 0 THEN SubSeq(s, Min(start, Len(s)) + 1, Len(s))
    ELSE SubSeq(s, Max(Len(s) + start, 0) + 1, Len(s))

\* Python's [x] * n
Repeat(x, n) == [i \in 1..Max(n, 0) |-> x]

----------------------------------------------------------------------------
(* Words *)
PAD     == <<"<", "P", "A", "D", ">">>
wSave   == <<"s", "a", "v", "e">>
wMoney  == <<"m", "o", "n", "e", "y">>
wMoneyC == <<"M", "o", "n", "e", "y">>
wTax    == <<"t", "a", "x">>

----------------------------------------------------------------------------
(* Dictionaries: a dict is the sequence of its <<key, value>> items in       *)
(* insertion order, with no key twice.                                       *)

\* dict.get(key, default)
DictGet(d, key, default) ==
    IF \E i \in 1..Len(d) : d[i][1] = key
    THEN d[CHOOSE i \in 1..Len(d) : d[i][1] = key][2]
    ELSE default

\* {v: k for k, v in d.items()}: on equal values the later item wins
Invert(d) ==
    [v \in {d[i][2] : i \in 1..Len(d)} |->
        d[CHOOSE i \in 1..Len(d) :
            /\ d[i][2] = v
            /\ \A j \in 1..Len(d) : d[j][2] = v => j <= i][1]]

\* variant: inv_vocab.get(t, '')
InvGetEmpty(inv, t, default) == IF t \in DOMAIN inv THEN inv[t] ELSE <<>>

\* inv_vocab.get(t, default) of line 209
InvGet(inv, t, default) == IF t \in DOMAIN inv THEN inv[t] ELSE default

----------------------------------------------------------------------------
(* generate_text: inputs *)

\* the vocabulary of the worked example, and one without an entry for 0
ExampleVocab == << <<PAD, 0>>, <<wSave, 1>>, <<wMoney, 2>> >>
NoPadVocab   == << <<wMoney, 1>>, <<wSave, 2>> >>
Vocabs       == {ExampleVocab, NoPadVocab}

RawWords == {wSave, wMoneyC, wTax}

WordLists(n) == UNION {[1..k -> RawWords] : k \in 0..n}

\* the seed of the worked example: "save money"
ExampleSeed == wSave \o <<" ">> \o wMoney

\* seeds: up to MaxSeedWords words, single blanks between; two with stray blanks;
\* and the seed of the worked example
SeedTexts ==
    {Join(ws) : ws \in WordLists(MaxSeedWords)}
        \cup {<<" ">>, <<" ">> \o wSave \o <<" ", " ">> \o wMoneyC \o <<" ">>}
        \cup {ExampleSeed}

\* temperature = num/den: 0.7, the default of line 197, and 0.005
Temperatures == {[num |-> 7, den |-> 10], [num |-> 1, den |-> 200]}

----------------------------------------------------------------------------
(* The prediction model.  model.predict returns float32 probabilities; the  *)
(* model keeps the distributions whose entries are 0 or a power of 1/2, an   *)
(* entry being the numerator q of q / 2^(width-1).                           *)

\* variant: a model with one output more than the vocabulary has entries
ModelWidthWide(v) == Len(v) + 1

\* the output width of the model: Dense(vocab_size) with vocab_size = len(vocab)
ModelWidth(v) == Len(v)

Pow2(n) == 2 ^ n

RECURSIVE Sum(_)
Sum(s) == IF s = <<>> THEN 0 ELSE Head(s) + Sum(Tail(s))

ProbValues(w) == {0} \cup {Pow2(k) : k \in 0..(w - 1)}

\* the softmax outputs of width w: non-negative entries that sum to 1
Distributions(w) == {p \in [1..w -> ProbValues(w)] : Sum(p) = Pow2(w - 1)}

\* -log2(q / 2^(w-1)) for q a power of two
Bits(q, w) == CHOOSE k \in 0..(w - 1) : Pow2((w - 1) - k) = q

\* 1e-10 of line 205 lies between 2^-34 and 2^-33
FloorBits == 33

\* np.exp in float32 returns 0.0 below 2^-149: 2^-150 and less round to zero
ExpMinBits == 150

\* line 205: np.log(pred + 1e-10) / temperature, as the number e of
\* -e / t.num in bits (log2): in float32 the floor is absorbed by any entry > 0
LogOverT(q, w, t) == (IF q = 0 THEN FloorBits ELSE Bits(q, w)) * t.den

\* line 206, numerator: np.exp of LogOverT, which underflows to 0.0; above the
\* underflow the entries of a distribution stay as far apart as they were
Exp(e, t) ==
    IF e >= ExpMinBits * t.num THEN [cls |-> "zero", e |-> 0] ELSE [cls |-> "pos", e |-> e]

\* line 206: np.exp(pred) / np.sum(np.exp(pred)); 0.0 / 0.0 is nan
Softmax(p, w, t) ==
    LET ex == [i \in 1..w |-> Exp(LogOverT(p[i], w, t), t)]
    IN  IF \A i \in 1..w : ex[i].cls = "zero"
        THEN [i \in 1..w |-> [cls |-> "nan", e |-> 0]]
        ELSE ex

\* a > b on the values of Softmax
Greater(a, b) ==
    \/ a.cls = "pos" /\ b.cls = "zero"
    \/ a.cls = "pos" /\ b.cls = "pos" /\ a.e < b.e

\* np.argmax: the first index of a maximum, the first nan if there is one;
\* indices count from 0
ArgMax(x) ==
    IF \E i \in 1..Len(x) : x[i].cls = "nan"
    THEN (CHOOSE i \in 1..Len(x) :
            x[i].cls = "nan" /\ \A j \in 1..(i - 1) : x[j].cls # "nan") - 1
    ELSE (CHOOSE i \in 1..Len(x) :
            /\ \A j \in 1..Len(x) : ~Greater(x[j], x[i])
            /\ \A j \in 1..(i - 1) : Greater(x[i], x[j])) - 1

\* lines 205-207: the identifier a decode step chooses
NextToken(p, t) == ArgMax(Softmax(p, Len(p), t))

----------------------------------------------------------------------------
(* generate_text: the function *)

\* line 199
EncodeSeed(v, text) ==
    LET ws == word_tokenize(Lower(text))
    IN  [i \in 1..Len(ws) |-> DictGet(v, ws[i], 0)]

\* variant: keeps the last seq_length-1 tokens of a long seed
TruncatePadTrailing(toks, sl) ==
    SliceFrom(toks, Max(Len(toks) - (sl - 1), 0)) \o Repeat(0, sl - 1 - Len(toks))

\* variant: pads before the seed
TruncatePadLeft(toks, sl) == Repeat(0, sl - 1 - Len(toks)) \o SliceTo(toks, sl - 1)

\* line 200
TruncatePad(toks, sl) == SliceTo(toks, sl - 1) \o Repeat(0, sl - 1 - Len(toks))

\* variant: tokens[-seq_length:]
WindowWide(toks, sl) == SliceFrom(toks, -sl)

\* line 202: tokens[-(seq_length - 1):]
Window(toks, sl) == SliceFrom(toks, -(sl - 1))

\* variant: renders the generated identifiers only
RenderGenerated(inv, toks) ==
    Join([i \in 1..Len(chosen) |-> InvGet(inv, chosen[i], PAD)])

\* line 209
Render(inv, toks) == Join([i \in 1..Len(toks) |-> InvGet(inv, toks[i], PAD)])

\* variant: a chosen padding identifier ends the loop
LoopStopsAtPad == step < length /\ next_token # <<0>>

\* line 201: the range(length) has iterations left
LoopContinues == step < length

\* the state of generate_text on entry
GenEntry ==
    /\ inv_vocab = <<>> /\ tokens = <<>> /\ input_seq = <<>> /\ pred = <<>>
    /\ next_token = <<>> /\ step = 0 /\ predict_calls = 0
    /\ seed_state = <<>> /\ chosen = <<>> /\ result = <<>>
    /\ pc = "start"

\* preprocess_text and the loader are not running
PreIdle ==
    /\ texts = <<>> /\ vocab_size = 1 /\ pre_seq_length = 1 /\ max_sequences = 0
    /\ all_tokens = <<>> /\ pre_vocab = <<>> /\ token_ids = <<>> /\ sequences = <<>>
    /\ pre_pc = "idle"

LoadIdle ==
    /\ dataset = <<>> /\ batch_size = 1 /\ cursor = 0 /\ financial_texts = <<>>
    /\ yielded = <<>> /\ load_pc = "idle"

\* a call generate_text(model, vocab, seed_text, seq_length, length, temperature)
Init ==
    /\ vocab \in Vocabs
    /\ seed_text \in SeedTexts
    /\ seq_length \in 1..MaxSeqLength
    /\ length \in 0..MaxLength
    /\ temperature \in Temperatures
    /\ GenEntry /\ PreIdle /\ LoadIdle

\* lines 198-200
Encode ==
    /\ pc = "start"
    /\ inv_vocab' = Invert(vocab)
    /\ tokens' = TruncatePad(EncodeSeed(vocab, seed_text), seq_length)
    /\ seed_state' = tokens'
    /\ pc' = "loop"
    /\ UNCHANGED <<vocab, seed_text, seq_length, length, temperature, input_seq, pred,
                   next_token, step, predict_calls, chosen, result>>
    /\ UNCHANGED <<preVars, loadVars>>

\* lines 201-203: one more iteration; the model is queried with the window and
\* answers with some distribution, whatever the window (with seq_length = 1
\* the slice tokens[-0:] is the whole state)
Predict ==
    /\ pc = "loop"
    /\ LoopContinues
    /\ input_seq' = Window(tokens, seq_length)
    /\ pred' \in Distributions(ModelWidth(vocab))
    /\ predict_calls' = predict_calls + 1
    /\ pc' = "predicted"
    /\ UNCHANGED <<vocab, seed_text, seq_length, length, temperature, inv_vocab, tokens,
                   next_token, step, seed_state, chosen, result>>
    /\ UNCHANGED <<preVars, loadVars>>

\* variant: the state slides, dropping its first identifier on each append
SelectSliding ==
    /\ pc = "predicted"
    /\ next_token' = <<NextToken(pred, temperature)>>
    /\ tokens' = Tail(Append(tokens, next_token'[1]))
    /\ chosen' = Append(chosen, next_token'[1])
    /\ step' = step + 1
    /\ pred' = <<>>
    /\ pc' = "loop"
    /\ UNCHANGED <<vocab, seed_text, seq_length, length, temperature, inv_vocab,
                   input_seq, predict_calls, seed_state, result>>
    /\ UNCHANGED <<preVars, loadVars>>

\* lines 205-208: rescale, arg-max, append; pred is not read again
Select ==
    /\ pc = "predicted"
    /\ next_token' = <<NextToken(pred, temperature)>>
    /\ tokens' = Append(tokens, next_token'[1])
    /\ chosen' = Append(chosen, next_token'[1])
    /\ step' = step + 1
    /\ pred' = <<>>
    /\ pc' = "loop"
    /\ UNCHANGED <<vocab, seed_text, seq_length, length, temperature, inv_vocab,
                   input_seq, predict_calls, seed_state, result>>
    /\ UNCHANGED <<preVars, loadVars>>

\* line 209: the loop is over
Return ==
    /\ pc = "loop"
    /\ ~LoopContinues
    /\ result' = Render(inv_vocab, tokens)
    /\ pc' = "done"
    /\ UNCHANGED <<vocab, seed_text, seq_length, length, temperature, inv_vocab, tokens,
                   input_seq, pred, next_token, step, predict_calls, seed_state, chosen>>
    /\ UNCHANGED <<preVars, loadVars>>

Next == Encode \/ Predict \/ Select \/ Return

Spec == Init /\ [][Next]_vars

----------------------------------------------------------------------------
(* generate_text: properties *)

\* the tokenized, encoded seed (line 199)
SeedIds == EncodeSeed(vocab, seed_text)

\* the first k elements of s, and the last k
Leading(s, k)  == [i \in 1..k |-> s[i]]
Trailing(s, k) == [i \in 1..k |-> s[Len(s) - k + i]]

FirstQuery == pc = "predicted" /\ step = 0

\* C1 as stated: a seed of more than seq_length-1 tokens starts the generation
\* state, and the first model input window, from its LAST seq_length-1 tokens.
C1_TrailingTokens ==
    (pc # "start" /\ Len(SeedIds) > seq_length - 1) =>
        /\ seed_state = Trailing(SeedIds, seq_length - 1)
        /\ FirstQuery => input_seq = Trailing(SeedIds, seq_length - 1)

\* C1 amended: a seed of more than seq_length-1 tokens starts the generation
\* state, and the first model input window, from its FIRST seq_length-1 tokens,
\* in their original order.
C1_LeadingTokens ==
    (pc # "start" /\ Len(SeedIds) > seq_length - 1) =>
        /\ seed_state = Leading(SeedIds, seq_length - 1)
        /\ FirstQuery => input_seq = Leading(SeedIds, seq_length - 1)

C1_Witness ==
    /\ FirstQuery
    /\ Len(SeedIds) > seq_length - 1
    /\ seq_length >= 2
    /\ Leading(SeedIds, seq_length - 1) # Trailing(SeedIds, seq_length - 1)

\* C2: a seed of n <= seq_length-1 tokens gives a first model input window of
\* exactly seq_length-1 identifiers: the n seed identifiers in order, then
\* seq_length-1-n zeros (the seed verbatim when n = seq_length-1, all zeros when
\* n = 0); and the function goes on from there.
C2_PaddedWindow ==
    LET n == Len(SeedIds)
        padded == [i \in 1..(seq_length - 1) |-> IF i <= n THEN SeedIds[i] ELSE 0]
    IN  (pc # "start" /\ n <= seq_length - 1) =>
            /\ seed_state = padded
            /\ FirstQuery => input_seq = padded /\ Len(input_seq) = seq_length - 1
            /\ pc # "done" => ENABLED Next

C2_Witness ==
    /\ FirstQuery
    /\ Len(SeedIds) >= 1
    /\ Len(SeedIds) < seq_length - 1

\* the all-padding window of an empty seed is reached and the call returns
C2_WitnessEmptySeed ==
    pc = "done" /\ Len(SeedIds) = 0 /\ seq_length >= 2 /\ length >= 1

\* C3: after k decode steps the generation state has (seq_length-1) + k
\* identifiers: the seed state followed by the k chosen identifiers, none of the
\* earlier ones removed or rewritten; the returned string has
\* (seq_length-1) + length blank-separated tokens.
C3_StateLength ==
    /\ pc # "start" =>
        /\ Len(seed_state) = seq_length - 1
        /\ Len(chosen) = step
        /\ tokens = seed_state \o chosen
        /\ Len(tokens) = (seq_length - 1) + step
    /\ pc = "done" => Len(Split(result)) = (seq_length - 1) + length

C3_Witness == pc = "done" /\ length >= 2 /\ seq_length >= 2

\* C4: with seq_length >= 2 every model query is made with exactly
\* seq_length-1 identifiers, the right-aligned suffix of the generation state:
\* the window of step k starts k positions into the state, and from the second
\* step on it ends with the identifier the previous step chose.
C4_RightAlignedWindow ==
    (seq_length >= 2 /\ pc = "predicted") =>
        /\ Len(input_seq) = seq_length - 1
        /\ input_seq = Trailing(tokens, seq_length - 1)
        /\ input_seq = [i \in 1..(seq_length - 1) |-> (seed_state \o chosen)[step + i]]
        /\ step >= 1 => input_seq[seq_length - 1] = next_token[1]

C4_Witness == pc = "predicted" /\ step >= 1 /\ seq_length >= 3

\* C5: for a fixed prediction distribution the decode step chooses the same
\* identifier under any two positive temperatures.
C5_TemperatureInert ==
    pc = "predicted" =>
        \A t1, t2 \in Temperatures : NextToken(pred, t1) = NextToken(pred, t2)

\* C6: the loop ends after exactly `length` iterations, with one model call per
\* iteration, and no chosen identifier ends it early.
C6_ExactIterations ==
    /\ step <= length
    /\ predict_calls = step + (IF pc = "predicted" THEN 1 ELSE 0)
    /\ pc = "done" => step = length /\ predict_calls = length /\ Len(chosen) = length

C6_Witness == pc = "done" /\ length >= 2 /\ chosen[1] = 0

IsExample ==
    /\ vocab = ExampleVocab /\ seed_text = ExampleSeed
    /\ seq_length = 4 /\ length = 2

IsPrefix(a, b) == Len(a) <= Len(b) /\ \A i \in 1..Len(a) : a[i] = b[i]

\* C7 as stated: the worked example starts from [1,2,0], appends one identifier
\* per step and returns 4 tokens beginning "save money".
C7_ExampleFourTokens ==
    IsExample =>
        /\ pc # "start" => seed_state = <<1, 2, 0>>
        /\ pc = "done" =>
            /\ Len(chosen) = 2
            /\ Len(Split(result)) = 4
            /\ IsPrefix(ExampleSeed, result)

\* C7 amended: the worked example starts from [1,2,0], appends one identifier
\* per step and returns 5 tokens (3 of the padded seed, 2 generated) beginning
\* "save money".
C7_ExampleFiveTokens ==
    IsExample =>
        /\ pc # "start" => seed_state = <<1, 2, 0>>
        /\ FirstQuery => input_seq = <<1, 2, 0>>
        /\ pc = "done" =>
            /\ Len(chosen) = 2
            /\ tokens = <<1, 2, 0>> \o chosen
            /\ Len(Split(result)) = 5
            /\ IsPrefix(ExampleSeed \o <<" ">> \o PAD \o <<" ">>, result)

C7_Witness == IsExample /\ pc = "done"

Keys(d)   == {d[i][1] : i \in 1..Len(d)}
Values(d) == {d[i][2] : i \in 1..Len(d)}

\* C8: a seed word that is no key of the vocabulary is encoded as 0; in the
\* returned string every identifier of the final state gives one token: a word
\* the vocabulary maps to it, or "<PAD>" when the vocabulary maps no word to it.
C8_UnknownEntries ==
    LET ws == word_tokenize(Lower(seed_text))
    IN  /\ pc # "start" =>
            \A i \in 1..Min(Len(ws), seq_length - 1) :
                ws[i] \notin Keys(vocab) => seed_state[i] = 0
        /\ pc = "done" =>
            /\ Len(Split(result)) = Len(tokens)
            /\ \A i \in 1..Len(tokens) :
                IF tokens[i] \in Values(vocab)
                THEN <<Split(result)[i], tokens[i]>> \in {vocab[j] : j \in 1..Len(vocab)}
                ELSE Split(result)[i] = PAD

C8_Witness ==
    /\ pc = "done"
    /\ \E i \in 1..Len(tokens) : tokens[i] \notin Values(vocab)
    /\ \E i \in 1..Len(tokens) : tokens[i] \in Values(vocab)
    /\ \E i \in 1..Min(Len(SeedIds), seq_length - 1) :
        word_tokenize(Lower(seed_text))[i] \notin Keys(vocab)

\* the identifiers of d are 0..len(d)-1, one word each, as preprocess_text builds it
IsDense(d) ==
    /\ Values(d) = 0..(Len(d) - 1)
    /\ \A i, j \in 1..Len(d) : d[i][2] = d[j][2] => i = j

\* C12: with a vocabulary of dense identifiers 0..|vocab|-1 and a model of
\* |vocab| outputs, every identifier of the generation state is in
\* 0..|vocab|-1 at every step and has a word in the inverse vocabulary, so the
\* "<PAD>" default of line 209 is never used, and a token of the output is
\* "<PAD>" only where the identifier is 0.
C12_IdentifiersInRange ==
    IsDense(vocab) =>
        /\ \A i \in 1..Len(tokens) : tokens[i] \in 0..(Len(vocab) - 1)
        /\ pc # "start" => \A i \in 1..Len(tokens) : tokens[i] \in DOMAIN inv_vocab
        /\ pc = "done" =>
            /\ Len(Split(result)) = Len(tokens)
            /\ \A i \in 1..Len(tokens) :
                /\ Split(result)[i] = inv_vocab[tokens[i]]
                /\ Split(result)[i] = PAD => tokens[i] = 0

\* an output with a padding, an out-of-vocabulary seed word, a predicted 0 and
\* a predicted word
C12_Witness ==
    /\ pc = "done"
    /\ IsDense(vocab)
    /\ Len(SeedIds) < seq_length - 1
    /\ \E i \in 1..Len(SeedIds) :
        word_tokenize(Lower(seed_text))[i] \notin Keys(vocab)
    /\ \E i \in 1..Len(chosen) : chosen[i] = 0
    /\ \E i \in 1..Len(chosen) : chosen[i] # 0

----------------------------------------------------------------------------
(* preprocess_text *)

\* the documents a corpus is made of:
\* "Tax tax debt", "debt  Save", "" and "tax save money"
DocPool ==
    { <<"T", "a", "x", " ", "t", "a", "x", " ", "d", "e", "b", "t">>,
      <<"d", "e", "b", "t", " ", " ", "S", "a", "v", "e">>,
      <<>>,
      <<"t", "a", "x", " ", "s", "a", "v", "e", " ", "m", "o", "n", "e", "y">> }

Corpora == UNION {[1..k -> DocPool] : k \in 0..MaxDocs}

RECURSIVE TokenizeAll(_)
\* lines 172-175
TokenizeAll(ts) ==
    IF ts = <<>> THEN <<>>
    ELSE word_tokenize(Lower(Head(ts))) \o TokenizeAll(Tail(ts))

Count(toks, w)      == Cardinality({i \in 1..Len(toks) : toks[i] = w})
FirstIndex(toks, w) == CHOOSE i \in 1..Len(toks) :
                           toks[i] = w /\ \A j \in 1..(i - 1) : toks[j] # w

\* Counter(toks).most_common(k): by count, largest first; equal counts in the
\* order first encountered; k <= 0 gives the empty list
MostCommon(toks, k) ==
    LET W == {toks[i] : i \in 1..Len(toks)}
        Before(u, w) ==
            \/ Count(toks, u) > Count(toks, w)
            \/ Count(toks, u) = Count(toks, w) /\ FirstIndex(toks, u) < FirstIndex(toks, w)
        Rank(w) == 1 + Cardinality({u \in W : Before(u, w)})
    IN  [r \in 1..Min(Max(k, 0), Cardinality(W)) |-> CHOOSE w \in W : Rank(w) = r]

\* d[key] = value
DictSet(d, key, value) ==
    IF \E i \in 1..Len(d) : d[i][1] = key
    THEN [i \in 1..Len(d) |-> IF d[i][1] = key THEN <<key, value>> ELSE d[i]]
    ELSE Append(d, <<key, value>>)

\* variant: {word: idx for idx, word in enumerate(...)}
BuildVocabFromZero(toks, vs) ==
    LET mc == MostCommon(toks, vs - 1)
    IN  DictSet([i \in 1..Len(mc) |-> <<mc[i], i - 1>>], PAD, 0)

\* lines 177-180
BuildVocab(toks, vs) ==
    LET mc == MostCommon(toks, vs - 1)
    IN  DictSet([i \in 1..Len(mc) |-> <<mc[i], i>>], PAD, 0)

\* line 182
EncodeCorpus(v, toks) == [i \in 1..Len(toks) |-> DictGet(v, toks[i], 0)]

\* Python's s[a:b] for 0 <= a <= b
Slice(s, a, b) == SubSeq(s, Min(a, Len(s)) + 1, Min(b, Len(s)))

\* range(0, stop, stp) as a sequence, stp > 0
Range0(stop, stp) ==
    [j \in 1..(IF stop <= 0 THEN 0 ELSE (stop + stp - 1) \div stp) |-> (j - 1) * stp]

\* variant: range(0, len(token_ids) - seq_length + 1, seq_length)
MakeSequencesInclusive(ids, sl, ms) ==
    LET starts == Range0(Len(ids) - sl + 1, sl)
        all    == [j \in 1..Len(starts) |-> Slice(ids, starts[j], starts[j] + sl)]
        kept   == SliceTo(all, ms)
    IN  [j \in 1..Len(kept) |-> kept[j] \o Repeat(0, sl - Len(kept[j]))]

\* lines 183-185
MakeSequences(ids, sl, ms) ==
    LET starts == Range0(Len(ids) - sl, sl)
        all    == [j \in 1..Len(starts) |-> Slice(ids, starts[j], starts[j] + sl)]
        kept   == SliceTo(all, ms)
    IN  [j \in 1..Len(kept) |-> kept[j] \o Repeat(0, sl - Len(kept[j]))]

\* a call preprocess_text(texts, vocab_size, seq_length, max_sequences)
InitPre ==
    /\ texts \in Corpora
    /\ vocab_size \in 1..MaxVocabSize
    /\ pre_seq_length \in 1..MaxPreSeqLength
    /\ max_sequences \in 0..MaxSequences
    /\ all_tokens = <<>> /\ pre_vocab = <<>> /\ token_ids = <<>> /\ sequences = <<>>
    /\ pre_pc = "start"
    /\ vocab = <<>> /\ seed_text = <<>> /\ seq_length = 1 /\ length = 0
    /\ temperature = [num |-> 7, den |-> 10]
    /\ GenEntry
    /\ LoadIdle

\* lines 172-175
PreTokenize ==
    /\ pre_pc = "start"
    /\ all_tokens' = TokenizeAll(texts)
    /\ pre_pc' = "tokenized"
    /\ UNCHANGED <<texts, vocab_size, pre_seq_length, max_sequences, pre_vocab,
                   token_ids, sequences>>
    /\ UNCHANGED <<genVars, loadVars>>

\* lines 177-180
PreVocab ==
    /\ pre_pc = "tokenized"
    /\ pre_vocab' = BuildVocab(all_tokens, vocab_size)
    /\ pre_pc' = "vocab"
    /\ UNCHANGED <<texts, vocab_size, pre_seq_length, max_sequences, all_tokens,
                   token_ids, sequences>>
    /\ UNCHANGED <<genVars, loadVars>>

\* line 182
PreEncode ==
    /\ pre_pc = "vocab"
    /\ token_ids' = EncodeCorpus(pre_vocab, all_tokens)
    /\ pre_pc' = "encoded"
    /\ UNCHANGED <<texts, vocab_size, pre_seq_length, max_sequences, all_tokens,
                   pre_vocab, sequences>>
    /\ UNCHANGED <<genVars, loadVars>>

\* lines 183-186
PreSequences ==
    /\ pre_pc = "encoded"
    /\ sequences' = MakeSequences(token_ids, pre_seq_length, max_sequences)
    /\ pre_pc' = "done"
    /\ UNCHANGED <<texts, vocab_size, pre_seq_length, max_sequences, all_tokens,
                   pre_vocab, token_ids>>
    /\ UNCHANGED <<genVars, loadVars>>

NextPre == PreTokenize \/ PreVocab \/ PreEncode \/ PreSequences

SpecPre == InitPre /\ [][NextPre]_vars

VocabBuilt == pre_pc \in {"vocab", "encoded", "done"}

\* C9: the vocabulary preprocess_text builds maps distinct words to distinct
\* identifiers, the identifiers are exactly 0..|vocab|-1 with |vocab| <=
\* vocab_size, 0 is the identifier of "<PAD>" and of no corpus word, and a corpus
\* token that is no word of the vocabulary is encoded as 0.
C9_VocabBijection ==
    /\ VocabBuilt =>
        /\ \A i, j \in 1..Len(pre_vocab) :
              i # j => pre_vocab[i][1] # pre_vocab[j][1] /\ pre_vocab[i][2] # pre_vocab[j][2]
        /\ Values(pre_vocab) = 0..(Len(pre_vocab) - 1)
        /\ Len(pre_vocab) <= vocab_size
        /\ <<PAD, 0>> \in {pre_vocab[i] : i \in 1..Len(pre_vocab)}
        /\ \A i \in 1..Len(all_tokens) : DictGet(pre_vocab, all_tokens[i], 1) # 0
    /\ pre_pc \in {"encoded", "done"} =>
        /\ Len(token_ids) = Len(all_tokens)
        /\ \A i \in 1..Len(all_tokens) :
              all_tokens[i] \notin Keys(pre_vocab) => token_ids[i] = 0

C9_Witness ==
    /\ pre_pc = "done"
    /\ Len(pre_vocab) = vocab_size
    /\ vocab_size >= 2
    /\ \E i \in 1..Len(all_tokens) : all_tokens[i] \notin Keys(pre_vocab)
    /\ \E i \in 1..Len(all_tokens) : all_tokens[i] \in Keys(pre_vocab)

\* ceil(a / b) for b > 0
CeilDiv(a, b) == (a + b - 1) \div b

\* C11: from n token identifiers preprocess_text emits no sequence when
\* n <= L and otherwise min(M, ceil((n-L)/L)) sequences; sequence j (from 0) is
\* the identifiers [j*L, j*L+L) of the corpus, L of them, none a padding the
\* function added, no two sequences overlapping; when n is a multiple of L
\* the last complete window of the corpus is not among them.
C11_Windows ==
    LET n == Len(token_ids)
        L == pre_seq_length
        M == max_sequences
    IN  pre_pc = "done" =>
            /\ Len(sequences) = IF n <= L THEN 0 ELSE Min(M, CeilDiv(n - L, L))
            /\ \A j \in 1..Len(sequences) :
                /\ Len(sequences[j]) = L
                /\ (j - 1) * L + L <= n
                /\ \A i \in 1..L : sequences[j][i] = token_ids[(j - 1) * L + i]
            /\ (n > 0 /\ n % L = 0) => Len(sequences) * L <= n - L

\* a corpus of 2L or more identifiers, a multiple of L, whose last window is
\* left out although max_sequences would allow it
C11_Witness ==
    /\ pre_pc = "done"
    /\ Len(token_ids) % pre_seq_length = 0
    /\ Len(token_ids) >= 2 * pre_seq_length
    /\ pre_seq_length >= 2
    /\ Len(sequences) >= 1
    /\ Len(sequences) < max_sequences

----------------------------------------------------------------------------
(* load_openwebtext_financial *)

\* line 138
financial_keywords ==
    << <<"f", "i", "n", "a", "n", "c", "e">>,
       <<"i", "n", "v", "e", "s", "t", "m", "e", "n", "t">>,
       <<"b", "u", "d", "g", "e", "t">>,
       <<"m", "o", "n", "e", "y">>,
       <<"s", "a", "v", "i", "n", "g", "s">>,
       <<"s", "t", "o", "c", "k", "s">>,
       <<"r", "e", "t", "i", "r", "e", "m", "e", "n", "t">>,
       <<"d", "e", "b", "t">>,
       <<"c", "r", "e", "d", "i", "t">>,
       <<"t", "a", "x">> >>

\* keyword in text
Contains(text, keyword) ==
    \E i \in 0..(Len(text) - Len(keyword)) :
        \A j \in 1..Len(keyword) : text[i + j] = keyword[j]

\* lines 140-141
is_financial(text) ==
    \E k \in 1..Len(financial_keywords) : Contains(Lower(text), financial_keywords[k])

\* the documents of the streamed corpus: "Taxi", "art", "my DEBT", "hello"
StreamPool ==
    { <<"T", "a", "x", "i">>,
      <<"a", "r", "t">>,
      <<"m", "y", " ", "D", "E", "B", "T">>,
      <<"h", "e", "l", "l", "o">> }

Datasets == UNION {[1..k -> StreamPool] : k \in 0..MaxDataset}

\* variant: len(financial_texts) > batch_size
BatchFullStrict(batch, bs) == Len(batch) > bs

\* line 147
BatchFull(batch, bs) == Len(batch) >= bs

\* the generator object of a call load_openwebtext_financial(batch_size)
InitLoad ==
    /\ dataset \in Datasets
    /\ batch_size \in 1..MaxBatchSize
    /\ cursor = 0 /\ financial_texts = <<>> /\ yielded = <<>>
    /\ load_pc = "loop"
    /\ vocab = <<>> /\ seed_text = <<>> /\ seq_length = 1 /\ length = 0
    /\ temperature = [num |-> 7, den |-> 10]
    /\ GenEntry
    /\ PreIdle

\* lines 144-149: the next example is financial
LoadKeep ==
    /\ load_pc = "loop"
    /\ cursor < Len(dataset)
    /\ is_financial(dataset[cursor + 1])
    /\ cursor' = cursor + 1
    /\ LET grown == Append(financial_texts, dataset[cursor + 1])
       IN  IF BatchFull(grown, batch_size)
           THEN yielded' = Append(yielded, grown) /\ financial_texts' = <<>>
           ELSE yielded' = yielded /\ financial_texts' = grown
    /\ UNCHANGED <<dataset, batch_size, load_pc>>
    /\ UNCHANGED <<genVars, preVars>>

\* lines 144-145: the next example is not financial
LoadSkip ==
    /\ load_pc = "loop"
    /\ cursor < Len(dataset)
    /\ ~is_financial(dataset[cursor + 1])
    /\ cursor' = cursor + 1
    /\ UNCHANGED <<dataset, batch_size, financial_texts, yielded, load_pc>>
    /\ UNCHANGED <<genVars, preVars>>

\* lines 150-151: the corpus is exhausted
LoadFinish ==
    /\ load_pc = "loop"
    /\ cursor = Len(dataset)
    /\ yielded' = IF financial_texts # <<>> THEN Append(yielded, financial_texts)
                  ELSE yielded
    /\ load_pc' = "done"
    /\ UNCHANGED <<dataset, batch_size, cursor, financial_texts>>
    /\ UNCHANGED <<genVars, preVars>>

NextLoad == LoadKeep \/ LoadSkip \/ LoadFinish

SpecLoad == InitLoad /\ [][NextLoad]_vars

HasKeyword(text) ==
    \E k \in 1..Len(financial_keywords) : Contains(Lower(text), financial_keywords[k])

\* C10 as stated: every batch yielded has exactly batch_size documents, each
\* containing a finance keyword, and there are finitely many batches.
C10_FixedSizeBatches ==
    /\ Len(yielded) <= Len(dataset)
    /\ \A b \in 1..Len(yielded) :
        /\ Len(yielded[b]) = batch_size
        /\ \A d \in 1..Len(yielded[b]) : HasKeyword(yielded[b][d])

\* C10 amended: every batch yielded has between 1 and batch_size documents,
\* each containing a finance keyword; a batch of fewer than batch_size
\* documents can only be the last one, yielded once the corpus is exhausted;
\* and there are no more batches than documents.
C10_AllButLastFull ==
    /\ Len(yielded) <= Len(dataset)
    /\ \A b \in 1..Len(yielded) :
        /\ Len(yielded[b]) >= 1
        /\ Len(yielded[b]) <= batch_size
        /\ Len(yielded[b]) < batch_size => b = Len(yielded) /\ load_pc = "done"
        /\ \A d \in 1..Len(yielded[b]) : HasKeyword(yielded[b][d])

C10_Witness ==
    /\ load_pc = "done"
    /\ Len(yielded) >= 2
    /\ Len(yielded[1]) = batch_size
    /\ Len(yielded[Len(yielded)]) < batch_size
    /\ cursor > Len(yielded[1]) + Len(yielded[2])

====
